---------------------------- MODULE Spec2Model ----------------------------
(***************************************************************************)
(* Model of the keychain / car handshake of src/main.rs.                   *)
(*                                                                         *)
(* Scaling.  TLC's integers are 32 bits wide, so the 64-bit nanosecond     *)
(* clock is scaled: an octet takes ByteBase values instead of 256, a       *)
(* timestamp is still TIME_LENGTH = 8 octets, so the unsigned width of a   *)
(* clock reading is ByteBase^8, and one second is NanosPerSec clock units. *)
(* The arithmetic of the code (big-endian packing, checked subtraction,    *)
(* whole seconds of a duration) is computed as written on that width.      *)
(*                                                                         *)
(* Library code.  Sha256 and the RSA transforms of openssl are modelled by *)
(* small stand-ins that keep what the program relies on:                   *)
(*   - Sha256 is a fixed function to DigestLen octets, without collisions  *)
(*     on timestamps;                                                      *)
(*   - private_encrypt pads (PKCS#1 type 1) and applies a keyed            *)
(*     permutation of the block, public_decrypt inverts it and checks the  *)
(*     padding; a block made with another key, or a valid block with one   *)
(*     octet changed, does not pass the padding check.                     *)
(***************************************************************************)
EXTENDS Integers, Sequences, FiniteSets, TLC

\* ------------------------------------------------------------------ bounds

\* Values of one octet (256 in the program).
ByteBase == 6
\* Clock units in one second (10^9 in the program).
NanosPerSec == 3
\* How far the clock runs from 0.
MaxAdvance == 5
\* Octets of a digest (32 in the program).
DigestLen == 9
\* Key pairs that exist (the registered one is any of them).
NumKeys == 2
\* Cap of the count of Success answers to one message the model keeps.
MaxOk == 2
\* Messages other parties push on the queue before main's own.
MaxBroadcast == 2

\* ------------------------------------------------------- program constants

TIME_LENGTH == 8
\* Least number of 0xFF octets of a PKCS#1 type 1 padding.
MinPadLen == 8

CommandOpen == 1
Success == 2 ^ 2

Byte == 0 .. (ByteBase - 1)
U64Mod == ByteBase ^ TIME_LENGTH
U64Max == U64Mod - 1
\* Block size of the key (256 in the program).
RsaSize == DigestLen + MinPadLen + 5
KeyIds == 1 .. NumKeys

\* ---------------------------------------------------------------- options

None == [some |-> FALSE]
Some(v) == [some |-> TRUE, val |-> v]
Err == [ok |-> FALSE]
Ok(v) == [ok |-> TRUE, val |-> v]

\* ------------------------------------------------------------------- time

\* Variant of from_be_bytes with a slip: the octets are read little-endian.
from_le_bytes(bytes) ==
    LET F[i \in 0 .. Len(bytes)] ==
            IF i = 0 THEN 0 ELSE F[i - 1] * ByteBase + bytes[Len(bytes) + 1 - i]
    IN  F[Len(bytes)]

RECURSIVE be_fold(_, _)
be_fold(bytes, acc) ==
    IF bytes = <<>> THEN acc
    ELSE be_fold(Tail(bytes), acc * ByteBase + Head(bytes))

\* u64::from_be_bytes
from_be_bytes(bytes) == be_fold(bytes, 0)

\* u64::to_be_bytes
to_be_bytes(n) ==
    [i \in 1 .. TIME_LENGTH |-> (n \div (ByteBase ^ (TIME_LENGTH - i))) % ByteBase]

\* now(): the clock reading as 8 big-endian octets.
now(reading) == to_be_bytes(reading % U64Mod)

Duration_from_nanos(n) == [secs |-> n \div NanosPerSec, nanos |-> n % NanosPerSec]
as_secs(d) == d.secs

\* Variant of checked_sub with a slip: the subtraction wraps (wrapping_sub).
wrapping_sub(a, b) == Some((a - b + U64Mod) % U64Mod)

\* u64::checked_sub
checked_sub(a, b) == IF a >= b THEN Some(a - b) ELSE None

\* Variant of elapsed with a slip: a negative difference is clamped to zero.
elapsed_clamped(since, to) ==
    LET diff == checked_sub(from_be_bytes(to), from_be_bytes(since))
    IN  IF diff.some THEN Some(Duration_from_nanos(diff.val))
        ELSE Some(Duration_from_nanos(0))

\* Variant of elapsed with a slip: a difference of zero counts as none.
elapsed_strict(since, to) ==
    LET diff == checked_sub(from_be_bytes(to), from_be_bytes(since))
    IN  IF diff.some /\ diff.val > 0 THEN Some(Duration_from_nanos(diff.val))
        ELSE None

elapsed(since, to) ==
    LET diff == checked_sub(from_be_bytes(to), from_be_bytes(since))
    IN  IF diff.some THEN Some(Duration_from_nanos(diff.val)) ELSE None

\* ------------------------------------------------------------ message kind

\* Variant of try_from with a slip: an unknown tag defaults to CommandOpen.
try_from_default(value) ==
    IF value = Success THEN Ok("Success") ELSE Ok("CommandOpen")

try_from(value) ==
    IF value = CommandOpen THEN Ok("CommandOpen")
    ELSE IF value = Success THEN Ok("Success")
    ELSE Err

\* ------------------------------------------------------------- library code

Zeros(n) == [i \in 1 .. n |-> 0]

\* Sha256 of a non-empty octet string.
Sha256(data) ==
    [i \in 1 .. DigestLen |-> (data[((i - 1) % Len(data)) + 1] + i) % ByteBase]

RECURSIVE SumSeq(_)
SumSeq(s) == IF s = <<>> THEN 0 ELSE Head(s) + SumSeq(Tail(s))

\* PKCS#1 type 1 encoding of data into a block of RsaSize octets.
pkcs1_pad(data) ==
    <<0, 1>> \o [i \in 1 .. (RsaSize - 3 - Len(data)) |-> ByteBase - 1]
             \o <<0>> \o data

\* The payload of a PKCS#1 type 1 block, or Err.
pkcs1_unpad(em) ==
    LET seps == {z \in (3 + MinPadLen) .. RsaSize :
                    /\ em[z] = 0
                    /\ \A j \in 3 .. (z - 1) : em[j] = ByteBase - 1}
    IN  IF em[1] = 0 /\ em[2] = 1 /\ seps # {}
        THEN LET z == CHOOSE z \in seps : TRUE
             IN  Ok(SubSeq(em, z + 1, RsaSize))
        ELSE Err

\* The private-key transform of a block: a permutation of the blocks.
rsa_private(key, em) ==
    LET rest == [i \in 1 .. (RsaSize - 1) |-> (em[i + 1] + key) % ByteBase]
        first == (em[1] + key + ByteBase * RsaSize - SumSeq(rest)) % ByteBase
    IN  <<first>> \o rest

\* The public-key transform: the inverse permutation.
rsa_public(key, block) ==
    LET first == (SumSeq(block) + ByteBase - key) % ByteBase
        rest == [i \in 1 .. (RsaSize - 1) |-> (block[i + 1] + ByteBase - key) % ByteBase]
    IN  <<first>> \o rest

\* Rsa<Private>::private_encrypt(from, to, Padding::PKCS1): the block written
\* to `to` (from is short enough in every call of the program).
private_encrypt(rsa, from) == rsa_private(rsa.key, pkcs1_pad(from))

\* Rsa<Public>::public_decrypt(from, to, Padding::PKCS1): Err, or Ok with the
\* buffer `to` holding the recovered payload at its start.  An input longer
\* than the key's block is an error; a shorter one is the same number with
\* its leading zero octets left out.
public_decrypt(rsa, from, to) ==
    IF Len(from) > RsaSize THEN Err
    ELSE LET block == Zeros(RsaSize - Len(from)) \o from
             data == pkcs1_unpad(rsa_public(rsa.key, block))
         IN  IF data.ok
             THEN Ok(data.val \o SubSeq(to, Len(data.val) + 1, Len(to)))
             ELSE Err

\* ------------------------------------------------------------------ roles

\* Car { rsa: Rsa<Public> } and Keychain { rsa: Rsa<Private> } of one key pair.
Car_new(k) == [rsa |-> [key |-> k, half |-> "public"]]
Keychain_new(k) == [rsa |-> [key |-> k, half |-> "private"]]

\* Variant of get_initiation_message with a slip: the digest covers the tag
\* octet as well as the timestamp.
get_initiation_message_signs_kind(self, reading) ==
    LET message == <<CommandOpen>>
        time == now(reading)
        hash == Sha256(message \o time)
        sign == private_encrypt(self.rsa, hash)
    IN  message \o (time \o sign)

\* Keychain::get_initiation_message, with the clock reading now() returns.
get_initiation_message(self, reading) ==
    LET message == <<CommandOpen>>
        time == now(reading)
        hash == Sha256(time)
        sign == private_encrypt(self.rsa, hash)
    IN  message \o (time \o sign)

\* Variant of fresh with a slip: one whole second still counts as fresh.
fresh_le(duration) == as_secs(duration) <= 1

\* The freshness test of Car::process: less than one whole second.
fresh(duration) == as_secs(duration) < 1

\* Variant of hash_mismatch with a slip: the loop stops after its first round.
hash_mismatch_first(decrypted_hash, hash2) == decrypted_hash[1] # hash2[1]

\* The comparison loop of Car::process: some octet of the digest differs from
\* the octet of the buffer at the same place.
hash_mismatch(decrypted_hash, hash2) ==
    \E k \in 1 .. Len(hash2) : decrypted_hash[k] # hash2[k]

\* Variant of Car::process with a slip: the Success return is placed after
\* the `if let Ok(_)` block, so a failed transform falls through to it.
Car_process_fallthrough(self, message, reading) ==
    IF Len(message) > TIME_LENGTH + 1
    THEN IF try_from(message[1]) = Ok("CommandOpen")
         THEN LET printed == <<"car recieved CommandOpen">>
                  payload == SubSeq(message, 2, Len(message))
                  time == [i \in 1 .. TIME_LENGTH |-> payload[i]]
                  duration == elapsed(time, now(reading))
              IN  IF duration.some /\ fresh(duration.val)
                  THEN LET decrypted_hash ==
                               public_decrypt(self.rsa,
                                   SubSeq(payload, TIME_LENGTH + 1, Len(payload)),
                                   Zeros(RsaSize))
                           hash2 == Sha256(time)
                       IN  IF decrypted_hash.ok
                              /\ hash_mismatch(decrypted_hash.val, hash2)
                           THEN [ret |-> None, out |-> printed]
                           ELSE [ret |-> Some(<<Success>>), out |-> printed]
                  ELSE [ret |-> None, out |-> printed]
         ELSE [ret |-> None, out |-> <<>>]
    ELSE [ret |-> None, out |-> <<>>]

\* Variant of Car::process with a slip: the length test is >= where it should
\* be >, so a message of TIME_LENGTH + 1 octets passes it.
Car_process_ge(self, message, reading) ==
    IF Len(message) >= TIME_LENGTH + 1
    THEN IF try_from(message[1]) = Ok("CommandOpen")
         THEN LET printed == <<"car recieved CommandOpen">>
                  payload == SubSeq(message, 2, Len(message))
                  time == [i \in 1 .. TIME_LENGTH |-> payload[i]]
                  duration == elapsed(time, now(reading))
              IN  IF duration.some /\ fresh(duration.val)
                  THEN LET decrypted_hash ==
                               public_decrypt(self.rsa,
                                   SubSeq(payload, TIME_LENGTH + 1, Len(payload)),
                                   Zeros(RsaSize))
                           hash2 == Sha256(time)
                       IN  IF decrypted_hash.ok
                           THEN IF hash_mismatch(decrypted_hash.val, hash2)
                                THEN [ret |-> None, out |-> printed]
                                ELSE [ret |-> Some(<<Success>>), out |-> printed]
                           ELSE [ret |-> None, out |-> printed]
                  ELSE [ret |-> None, out |-> printed]
         ELSE [ret |-> None, out |-> <<>>]
    ELSE [ret |-> None, out |-> <<>>]

\* <Car as MessageProcessor>::process, with the clock reading now() returns:
\* the returned option and the lines printed.
Car_process(self, message, reading) ==
    IF Len(message) > TIME_LENGTH + 1
    THEN IF try_from(message[1]) = Ok("CommandOpen")
         THEN LET printed == <<"car recieved CommandOpen">>
                  payload == SubSeq(message, 2, Len(message))
                  time == [i \in 1 .. TIME_LENGTH |-> payload[i]]
                  duration == elapsed(time, now(reading))
              IN  IF duration.some /\ fresh(duration.val)
                  THEN LET decrypted_hash ==
                               public_decrypt(self.rsa,
                                   SubSeq(payload, TIME_LENGTH + 1, Len(payload)),
                                   Zeros(RsaSize))
                           hash2 == Sha256(time)
                       IN  IF decrypted_hash.ok
                           THEN IF hash_mismatch(decrypted_hash.val, hash2)
                                THEN [ret |-> None, out |-> printed]
                                ELSE [ret |-> Some(<<Success>>), out |-> printed]
                           ELSE [ret |-> None, out |-> printed]
                  ELSE [ret |-> None, out |-> printed]
         ELSE [ret |-> None, out |-> <<>>]
    ELSE [ret |-> None, out |-> <<>>]

\* Variant of Keychain::process with a slip: it matches CommandOpen where it
\* should match Success.
Keychain_process_wrong_kind(self, message) ==
    IF Len(message) < 1 THEN [ret |-> None, out |-> <<>>]
    ELSE IF try_from(message[1]) = Ok("CommandOpen")
         THEN [ret |-> None, out |-> <<"keys recieved Success">>]
         ELSE [ret |-> None, out |-> <<>>]

\* Variant of Keychain::process with a slip: the test of the tag is left out,
\* every non-empty message counts as Success.
Keychain_process_any(self, message) ==
    IF Len(message) < 1 THEN [ret |-> None, out |-> <<>>]
    ELSE [ret |-> None, out |-> <<"keys recieved Success">>]

\* Variant of Keychain::process with a slip: it acknowledges Success.
Keychain_process_ack(self, message) ==
    IF Len(message) < 1 THEN [ret |-> None, out |-> <<>>]
    ELSE IF try_from(message[1]) = Ok("Success")
         THEN [ret |-> Some(<<CommandOpen>>), out |-> <<"keys recieved Success">>]
         ELSE [ret |-> None, out |-> <<>>]

\* <Keychain as MessageProcessor>::process.
Keychain_process(self, message) ==
    IF Len(message) < 1 THEN [ret |-> None, out |-> <<>>]
    ELSE IF try_from(message[1]) = Ok("Success")
         THEN [ret |-> None, out |-> <<"keys recieved Success">>]
         ELSE [ret |-> None, out |-> <<>>]

\* -------------------------------------------------------------- transport

\* Variant of push_front with a slip: the message is pushed on the back, the
\* end pop_back takes from.
push_back(q, m) == q \o <<m>>

\* VecDeque: the front of the queue is the head of the sequence.
push_front(q, m) == <<m>> \o q
back(q) == q[Len(q)]
pop_back(q) == SubSeq(q, 1, Len(q) - 1)

\* ------------------------------------------------------------------ state

VARIABLES
    clock,      \* the reading SystemTime::now() gives
    car,        \* the Car
    keychain,   \* the Keychain
    pc,         \* "main", "loop", "done": position in main; "roles": no main
    ether,      \* main's queue of messages
    out,        \* the lines printed by the roles
    hist,       \* the calls of process made by main's loop, in order
    sent,       \* every message main pushed on the queue, in order
    init,       \* the last message get_initiation_message built, or <<>>
    call,       \* the call of process in progress outside main, or NoCall
    initOk      \* how many times the Car answered Success to the message init,
                \* as built (up to MaxOk)

vars == <<clock, car, keychain, pc, ether, out, hist, sent, init, call, initOk>>

NoCall == [device |-> "none"]

\* The clock readings of the model: a stretch from 0, and the last two
\* readings of the range.
Clocks == (0 .. MaxAdvance) \cup {U64Max - 1, U64Max}

Min(a, b) == IF a < b THEN a ELSE b
Max(a, b) == IF a > b THEN a ELSE b

\* main's handling of what process returns: a response is pushed on the front.
\* Variant of Respond with a slip: a response is pushed twice.
Respond_twice(q, r) ==
    IF r.ret.some THEN push_front(push_front(q, r.ret.val), r.ret.val) ELSE q

Respond(q, r) == IF r.ret.some THEN push_front(q, r.ret.val) ELSE q

\* One delivery, as recorded.
Delivery(device, message, reading, r) ==
    [device |-> device, message |-> message, now |-> reading,
     ret |-> r.ret, out |-> r.out]

CountInitOk(message, r) ==
    IF r.ret.some /\ message = init THEN Min(initOk + 1, MaxOk) ELSE initOk

\* make_key_car_pair and the first lines of main.
Init ==
    /\ clock \in Clocks
    /\ \E k \in KeyIds : car = Car_new(k) /\ keychain = Keychain_new(k)
    /\ pc = "main"
    /\ ether = <<>>
    /\ out = <<>>
    /\ hist = <<>>
    /\ sent = <<>>
    /\ init = <<>>
    /\ call = NoCall
    /\ initOk = 0

\* Time passes.
Tick ==
    /\ call = NoCall
    /\ clock + 1 \in Clocks
    /\ clock' = clock + 1
    /\ UNCHANGED <<car, keychain, pc, ether, out, hist, sent, init, call, initOk>>

\* main: get_initiation_message and push_front.
main_initiate ==
    /\ pc = "main"
    /\ LET message == get_initiation_message(keychain, clock)
       IN  /\ ether' = push_front(ether, message)
           /\ sent' = Append(sent, message)
           /\ init' = message
    /\ pc' = "loop"
    /\ UNCHANGED <<clock, car, keychain, out, hist, call, initOk>>

\* Variant of main's round with a slip: the medium is a directed channel, a
\* Success goes to the Keychain only and every other message to the Car only.
main_step_directed ==
    /\ pc = "loop"
    /\ Len(ether) > 0
    /\ LET x == back(ether)
           toCar == x # <<Success>>
           r == IF toCar THEN Car_process(car, x, clock)
                ELSE Keychain_process(keychain, x)
       IN  /\ ether' = Respond(pop_back(ether), r)
           /\ out' = out \o r.out
           /\ hist' = Append(hist,
                  Delivery(IF toCar THEN "car" ELSE "keychain", x, clock, r))
           /\ sent' = sent \o (IF r.ret.some THEN <<r.ret.val>> ELSE <<>>)
           /\ initOk' = IF toCar THEN CountInitOk(x, r) ELSE initOk
    /\ UNCHANGED <<clock, car, keychain, pc, init, call>>

\* Variant of main's round with a slip: a message the Car did not answer is
\* handed to the Car a second time.
main_step_retry ==
    /\ pc = "loop"
    /\ Len(ether) > 0
    /\ LET x == back(ether)
           r0 == Car_process(car, x, clock)
           r1 == Car_process(car, x, clock)
           r2 == Keychain_process(keychain, x)
           again == IF r0.ret.some THEN <<>> ELSE <<Delivery("car", x, clock, r0)>>
       IN  /\ ether' = Respond(Respond(pop_back(ether), r1), r2)
           /\ out' = out \o r1.out \o r2.out
           /\ hist' = hist \o again \o <<Delivery("car", x, clock, r1),
                                         Delivery("keychain", x, clock, r2)>>
           /\ sent' = sent \o (IF r1.ret.some THEN <<r1.ret.val>> ELSE <<>>)
                           \o (IF r2.ret.some THEN <<r2.ret.val>> ELSE <<>>)
           /\ initOk' = CountInitOk(x, r1)
    /\ UNCHANGED <<clock, car, keychain, pc, init, call>>

\* main: one round of the while loop: pop_back, then every device processes
\* the message, the Car first, and each response is pushed on the front.
main_step ==
    /\ pc = "loop"
    /\ Len(ether) > 0
    /\ LET x == back(ether)
           r1 == Car_process(car, x, clock)
           r2 == Keychain_process(keychain, x)
       IN  /\ ether' = Respond(Respond(pop_back(ether), r1), r2)
           /\ out' = out \o r1.out \o r2.out
           /\ hist' = hist \o <<Delivery("car", x, clock, r1),
                                Delivery("keychain", x, clock, r2)>>
           /\ sent' = sent \o (IF r1.ret.some THEN <<r1.ret.val>> ELSE <<>>)
                           \o (IF r2.ret.some THEN <<r2.ret.val>> ELSE <<>>)
           /\ initOk' = CountInitOk(x, r1)
    /\ UNCHANGED <<clock, car, keychain, pc, init, call>>

\* Variant of main's loop test with a slip: the condition is inverted, the
\* loop is left while messages are pending and spins on an empty queue.
main_exit_inverted ==
    /\ pc = "loop"
    /\ Len(ether) > 0
    /\ pc' = "done"
    /\ UNCHANGED <<clock, car, keychain, ether, out, hist, sent, init, call, initOk>>

\* main: the queue is empty, the loop ends.
main_exit ==
    /\ pc = "loop"
    /\ Len(ether) = 0
    /\ pc' = "done"
    /\ UNCHANGED <<clock, car, keychain, ether, out, hist, sent, init, call, initOk>>

Next == Tick \/ main_initiate \/ main_step \/ main_exit

Spec == Init /\ [][Next]_vars

\* ------------------------------------------------- the roles on their own

\* The second specification calls process of either role directly, at any
\* clock reading, on the messages a party on the medium can form: the
\* Keychain's own message, changed in any one place, cut short or extended,
\* and messages built from a known tag, a timestamp around the reading and a
\* block made with either existing key or with none.  The response of a call
\* is pushed on the medium as main does, and leaves it when the call is over.

\* Timestamps around a reading: the reading, the oldest fresh one, the
\* youngest stale one, the next; and the two ends of the range.
TokenSamples(reading) ==
    ({reading, reading - (NanosPerSec - 1), reading - NanosPerSec, reading + 1}
        \cap (0 .. U64Max)) \cup {0, U64Max}

\* What a holder of a private key may put under its transform for a
\* timestamp: its digest, the digest of the next timestamp, the digest
\* followed by more octets, the digest cut short, nothing.
Payloads(time) ==
    LET digest == Sha256(time)
        next == Sha256(to_be_bytes((from_be_bytes(time) + 1) % U64Mod))
    IN  {digest, next, digest \o <<0>>, digest \o <<1>>,
         SubSeq(digest, 1, DigestLen - 1), <<>>}

\* Blocks made with a private key; the block of the digest also without its
\* first octet and followed by one more octet.
KeyBlocks(time) ==
    LET sign(k, d) == private_encrypt(Keychain_new(k).rsa, d)
    IN  {sign(k, d) : k \in KeyIds, d \in Payloads(time)}
            \cup {Tail(sign(k, Sha256(time))) : k \in KeyIds}
            \cup {sign(k, Sha256(time)) \o <<0>> : k \in KeyIds}

\* Blocks made without any key.
NoKeyBlocks == {<<>>, <<0>>, Zeros(RsaSize), [i \in 1 .. RsaSize |-> 1]}

BuiltAt(time) ==
    {<<tag>> \o time \o block :
        tag \in {CommandOpen, Success}, block \in KeyBlocks(time) \cup NoKeyBlocks}

Built(reading) == UNION {BuiltAt(to_be_bytes(v)) : v \in TokenSamples(reading)}

\* A message with one octet changed, cut short, or extended by one octet.
OneByteChanged(m) ==
    {[m EXCEPT ![i] = b] : i \in 1 .. Len(m), b \in Byte} \ {m}
Truncated(m) == {SubSeq(m, 1, n) : n \in 0 .. (Len(m) - 1)}
Extended(m) == {m \o <<b>> : b \in Byte}

\* A message with its timestamp replaced, the rest kept.
Retimed(m, reading) ==
    {<<m[1]>> \o to_be_bytes(v) \o SubSeq(m, TIME_LENGTH + 2, Len(m)) :
        v \in TokenSamples(reading)} \ {m}

FromInit(m, reading) ==
    IF m = <<>> THEN {<<>>}
    ELSE {m} \cup OneByteChanged(m) \cup Truncated(m) \cup Extended(m)
             \cup Retimed(m, reading)

Short(reading) ==
    Truncated(<<CommandOpen>> \o to_be_bytes(reading) \o <<0>>) \cup {<<Success>>}

\* What is handed to the Car, and to the Keychain (which reads the first
\* octet only).
Messages(reading) == FromInit(init, reading) \cup Built(reading) \cup Short(reading)
KeychainMessages(reading) ==
    FromInit(init, reading) \cup BuiltAt(to_be_bytes(reading)) \cup Short(reading)

InitRoles ==
    /\ clock \in Clocks
    /\ \E k \in KeyIds : car = Car_new(k) /\ keychain = Keychain_new(k)
    /\ pc = "roles"
    /\ ether = <<>>
    /\ out = <<>>
    /\ hist = <<>>
    /\ sent = <<>>
    /\ init = <<>>
    /\ call = NoCall
    /\ initOk = 0

\* The Keychain builds an initiation message.
keychain_initiate ==
    /\ pc = "roles"
    /\ call = NoCall
    /\ init' = get_initiation_message(keychain, clock)
    /\ initOk' = 0
    /\ UNCHANGED <<clock, car, keychain, pc, ether, out, hist, sent, call>>

\* A message is handed to the Car.
car_process ==
    /\ pc = "roles"
    /\ call = NoCall
    /\ \E m \in Messages(clock) :
          LET r == Car_process(car, m, clock)
          IN  /\ call' = Delivery("car", m, clock, r)
              /\ ether' = Respond(ether, r)
              /\ initOk' = CountInitOk(m, r)
    /\ UNCHANGED <<clock, car, keychain, pc, out, hist, sent, init>>

\* A message is handed to the Keychain.
keychain_process ==
    /\ pc = "roles"
    /\ call = NoCall
    /\ \E m \in KeychainMessages(clock) :
          LET r == Keychain_process(keychain, m)
          IN  /\ call' = Delivery("keychain", m, clock, r)
              /\ ether' = Respond(ether, r)
    /\ UNCHANGED <<clock, car, keychain, pc, out, hist, sent, init, initOk>>

\* The call is over and its response, if any, has left the medium.
call_return ==
    /\ call # NoCall
    /\ call' = NoCall
    /\ ether' = <<>>
    /\ UNCHANGED <<clock, car, keychain, pc, out, hist, sent, init, initOk>>

NextRoles ==
    Tick \/ keychain_initiate \/ car_process \/ keychain_process \/ call_return

SpecRoles == InitRoles /\ [][NextRoles]_vars

\* ------------------------------------------------- the medium, with others

\* The third specification is main with other parties on the medium: before
\* main pushes the Keychain's message, up to MaxBroadcast messages are pushed
\* on the queue the same way, so that the loop runs on a queue of several
\* messages.  The clock stands still in it: the ages of the messages differ
\* by how they were built.

\* What another party pushes: a message the Keychain built now, one it built
\* a second ago, one with a timestamp not yet reached, one with a block made
\* without the key, a Success, an unknown tag.
Broadcasts(reading) ==
    {get_initiation_message(keychain, reading),
     get_initiation_message(keychain, Max(reading - NanosPerSec, 0)),
     get_initiation_message(keychain, Min(reading + 1, U64Max)),
     <<CommandOpen>> \o to_be_bytes(reading) \o Zeros(RsaSize),
     <<Success>>,
     <<2>>}

\* ether.push_front(message), by another party.
broadcast ==
    /\ pc = "main"
    /\ Len(sent) < MaxBroadcast
    /\ \E m \in Broadcasts(clock) :
          /\ ether' = push_front(ether, m)
          /\ sent' = Append(sent, m)
    /\ UNCHANGED <<clock, car, keychain, pc, out, hist, init, call, initOk>>

NextTransport == broadcast \/ main_initiate \/ main_step \/ main_exit

SpecTransport == Init /\ [][NextTransport]_vars

\* main is one thread that runs on: each of its statements, once it can be
\* executed, is.  That is weak fairness of main_initiate, main_step and
\* main_exit; for the first two it is written out, []<>~ENABLED <<A>>_vars \/
\* []<><<A>>_vars, with the guard of A for ENABLED (A changes vars whenever
\* its guard holds: main_initiate changes pc and main_step lengthens hist).
main_initiate_enabled == pc = "main"

main_step_enabled == pc = "loop" /\ Len(ether) > 0

SpecTransportFair ==
    /\ SpecTransport
    /\ ([]<>(~main_initiate_enabled) \/ []<><<main_initiate>>_vars)
    /\ ([]<>(~main_step_enabled) \/ []<><<main_step>>_vars)
    /\ WF_vars(main_exit)

\* --------------------------------------------------------- elapsed alone

\* The fourth specification calls elapsed on its own, on two instants encoded
\* as now() encodes them: instants within two seconds of each other, around
\* the carries of the octets, and at both ends of the u64 range.
Instants ==
    (0 .. 2 * NanosPerSec)
        \cup {ByteBase - 1, ByteBase, ByteBase + 1, ByteBase ^ 2,
              U64Mod \div 2, U64Max - 1, U64Max}

InitElapsed ==
    /\ clock = 0
    /\ car = Car_new(1)
    /\ keychain = Keychain_new(1)
    /\ pc = "elapsed"
    /\ ether = <<>>
    /\ out = <<>>
    /\ hist = <<>>
    /\ sent = <<>>
    /\ init = <<>>
    /\ call = NoCall
    /\ initOk = 0

elapsed_call ==
    /\ pc = "elapsed"
    /\ call = NoCall
    /\ \E reference \in Instants, current \in Instants :
          call' = [device |-> "elapsed",
                   reference |-> reference,
                   current |-> current,
                   ret |-> elapsed(now(reference), now(current))]
    /\ UNCHANGED <<clock, car, keychain, pc, ether, out, hist, sent, init, initOk>>

NextElapsed == elapsed_call \/ call_return

SpecElapsed == InitElapsed /\ [][NextElapsed]_vars

\* ----------------------------------------------------------------- claims

\* The parts of a message of at least TIME_LENGTH + 1 octets.
TokenOf(m) == from_be_bytes(SubSeq(m, 2, TIME_LENGTH + 1))
SigOf(m) == SubSeq(m, TIME_LENGTH + 2, Len(m))

CarCalled == call.device = "car"
KeychainCalled == call.device = "keychain"
\* A call in progress on an initiation message the Keychain built.
CarCalledAfterInit == CarCalled /\ init # <<>>

\* The age of a timestamp at a reading is defined and under one second.
InWindow(token, reading) == token <= reading /\ reading - token < NanosPerSec

\* C1: the Car, holding the public half of the Keychain's key, answers the
\* unmodified initiation message exactly <<4>> (Success) whenever its clock
\* reading c satisfies 0 <= c - token < 1 second.
C1_Accepts ==
    (/\ CarCalledAfterInit
     /\ car.rsa.key = keychain.rsa.key
     /\ call.message = init
     /\ InWindow(TokenOf(init), call.now))
        => (call.ret.some /\ call.ret.val = <<4>>)

\* C1 witness: the message is answered Success at the last reading of its
\* window.
C1_Witness ==
    /\ CarCalledAfterInit
    /\ call.message = init
    /\ call.now - TokenOf(init) = NanosPerSec - 1
    /\ call.ret.some

\* C2: a CommandOpen message whose timestamp is one second or more behind the
\* Car's clock reading gets no response, whatever its signature.
C2_StaleRejected ==
    (/\ CarCalled
     /\ Len(call.message) >= TIME_LENGTH + 1
     /\ call.message[1] = 1
     /\ TokenOf(call.message) <= call.now
     /\ call.now - TokenOf(call.message) >= NanosPerSec)
        => (~call.ret.some /\ ether = <<>>)

\* C2 witness: the Keychain's own message, validly signed, is handed over
\* exactly one second after it was built and gets no response.
C2_Witness ==
    /\ CarCalledAfterInit
    /\ call.message = init
    /\ call.now - TokenOf(init) = NanosPerSec
    /\ ~call.ret.some

\* C3: a CommandOpen message whose timestamp is greater than the Car's clock
\* reading, as unsigned values, gets no response, whatever its signature.
C3_FutureRejected ==
    (/\ CarCalled
     /\ Len(call.message) >= TIME_LENGTH + 1
     /\ call.message[1] = 1
     /\ TokenOf(call.message) > call.now)
        => (~call.ret.some /\ ether = <<>>)

\* C3 witness: a message validly signed for the largest timestamp is handed
\* over at reading 0, where a wrapped difference would be one unit, and gets
\* no response.
C3_Witness ==
    /\ CarCalled
    /\ call.now = 0
    /\ call.message = get_initiation_message(keychain, U64Max)
    /\ ~call.ret.some

\* The message m2 is m with exactly one octet of the signature block changed.
SigByteChanged(m, m2) ==
    /\ Len(m2) = Len(m)
    /\ \E i \in (TIME_LENGTH + 2) .. Len(m) :
          /\ m2[i] # m[i]
          /\ \A j \in (1 .. Len(m)) \ {i} : m2[j] = m[j]

\* C4: an initiation message the Car would accept, with any single octet of
\* its signature block changed, gets no response at the same reading.
C4_SigTamperRejected ==
    (/\ CarCalledAfterInit
     /\ InWindow(TokenOf(init), call.now)
     /\ SigByteChanged(init, call.message))
        => (~call.ret.some /\ ether = <<>>)

\* C4 witness: the last octet of the signature block is changed and the
\* message, still fresh, gets no response.
C4_Witness ==
    /\ CarCalledAfterInit
    /\ InWindow(TokenOf(init), call.now)
    /\ SigByteChanged(init, call.message)
    /\ call.message[Len(init)] # init[Len(init)]
    /\ ~call.ret.some

\* The message m2 is m with another timestamp, tag and signature block kept.
TokenChanged(m, m2) ==
    /\ Len(m2) = Len(m)
    /\ m2[1] = m[1]
    /\ SigOf(m2) = SigOf(m)
    /\ TokenOf(m2) # TokenOf(m)

\* C5: an initiation message with its timestamp changed to any other value
\* and its signature block kept gets no response, also when the new
\* timestamp is inside the one-second window.
C5_TokenTamperRejected ==
    (CarCalledAfterInit /\ TokenChanged(init, call.message))
        => (~call.ret.some /\ ether = <<>>)

\* C5 witness: the changed timestamp is fresh at the reading, as the original
\* is, and the message gets no response.
C5_Witness ==
    /\ CarCalledAfterInit
    /\ TokenChanged(init, call.message)
    /\ InWindow(TokenOf(init), call.now)
    /\ InWindow(TokenOf(call.message), call.now)
    /\ ~call.ret.some

\* C6: a message whose first octet is neither 1 nor 4 gets no response from
\* the Car nor from the Keychain, whatever its length and payload, and is
\* not treated as a known kind (nothing is printed for it).
C6_UnknownTagRejected ==
    (/\ call # NoCall
     /\ Len(call.message) >= 1
     /\ call.message[1] \notin {1, 4})
        => (~call.ret.some /\ call.out = <<>> /\ ether = <<>>)

\* C6 witness: the Keychain's fresh message with its tag changed to 2 is
\* handed to the Car and gets no response.
C6_Witness ==
    /\ CarCalledAfterInit
    /\ InWindow(TokenOf(init), call.now)
    /\ call.message = [init EXCEPT ![1] = 2]
    /\ ~call.ret.some

\* C7: in a run of main where the Car's clock reads less than one second past
\* the timestamp when the initiation message is delivered, the events are, in
\* order: the Car answers Success, the Keychain ignores the initiation
\* message, the Success message is delivered to both, the Keychain alone
\* reacts and records completion, nothing else is sent, and the queue ends
\* empty.
C7_EndToEnd ==
    (/\ pc = "done"
     /\ Len(hist) >= 1
     /\ hist[1].now - TokenOf(init) < NanosPerSec)
        => /\ Len(hist) = 4
           /\ hist[1].device = "car" /\ hist[1].message = init
           /\ hist[1].ret.some /\ hist[1].ret.val = <<4>>
           /\ hist[2].device = "keychain" /\ hist[2].message = init
           /\ ~hist[2].ret.some /\ hist[2].out = <<>>
           /\ hist[3].device = "car" /\ hist[3].message = <<4>>
           /\ ~hist[3].ret.some /\ hist[3].out = <<>>
           /\ hist[4].device = "keychain" /\ hist[4].message = <<4>>
           /\ ~hist[4].ret.some /\ hist[4].out = <<"keys recieved Success">>
           /\ out = <<"car recieved CommandOpen", "keys recieved Success">>
           /\ sent = <<init, <<4>>>>
           /\ ether = <<>>

\* C7 witness: main has ended after a delivery later than the timestamp and
\* inside the window, and the Keychain has recorded completion.
C7_Witness ==
    /\ pc = "done"
    /\ Len(hist) = 4
    /\ hist[1].now > TokenOf(init)
    /\ hist[1].now - TokenOf(init) < NanosPerSec
    /\ out = <<"car recieved CommandOpen", "keys recieved Success">>
    /\ ether = <<>>

\* C8: the Keychain's process returns nothing for every message, so its
\* process step never puts a message on the medium.
C8_KeychainSilent ==
    KeychainCalled => (~call.ret.some /\ ether = <<>>)

\* C8 witness: the Keychain is handed Success, records it and returns
\* nothing.
C8_Witness ==
    /\ KeychainCalled
    /\ call.message = <<4>>
    /\ call.out = <<"keys recieved Success">>
    /\ ~call.ret.some

\* The three causes of a rejection.  Malformed: too short, or not a
\* CommandOpen tag.  Stale or future: the age of the timestamp is undefined or
\* one second or more.  Invalid signature: the public-key transform fails, or
\* the recovered buffer differs from the digest of the timestamp in one of
\* the octets of the digest.
Malformed(m) == Len(m) <= TIME_LENGTH + 1 \/ m[1] # 1
StaleOrFuture(m, reading) ==
    ~Malformed(m) /\ ~InWindow(TokenOf(m), reading)
InvalidSignature(m) ==
    /\ ~Malformed(m)
    /\ LET recovered == public_decrypt(car.rsa, SigOf(m), Zeros(RsaSize))
           digest == Sha256(SubSeq(m, 2, TIME_LENGTH + 1))
       IN  \/ ~recovered.ok
           \/ \E k \in 1 .. DigestLen : recovered.val[k] # digest[k]

\* C9: whatever the cause of a rejection (malformed message, stale or future
\* timestamp, invalid signature), the Car returns the same nothing, nothing
\* is put on the medium, and both roles are as they were constructed.
C9_UniformRejection ==
    (/\ CarCalled
     /\ \/ Malformed(call.message)
        \/ StaleOrFuture(call.message, call.now)
        \/ InvalidSignature(call.message))
        => /\ call.ret = None
           /\ ether = <<>>
           /\ car = Car_new(car.rsa.key)
           /\ keychain = Keychain_new(car.rsa.key)

\* C9 witness: a fresh CommandOpen message whose block the transform
\* recovers, but to another digest, is rejected like the others.
C9_Witness ==
    /\ CarCalled
    /\ ~Malformed(call.message)
    /\ InWindow(TokenOf(call.message), call.now)
    /\ public_decrypt(car.rsa, SigOf(call.message), Zeros(RsaSize)).ok
    /\ InvalidSignature(call.message)
    /\ call.ret = None

\* C10 as stated: the Car answers Success to one initiation message at most
\* once, in particular not when the same message is delivered again within
\* the one-second window.
C10_SingleShot == initOk <= 1

\* C10 as amended: the Car keeps nothing between deliveries.  Each delivery of
\* the Keychain's initiation message is answered Success while the message is
\* less than one second old, a repeated delivery too, and no delivery is once
\* it is one second old or more.
C10_Stateless ==
    (CarCalledAfterInit /\ call.message = init)
        => /\ call.ret.some <=> InWindow(TokenOf(init), call.now)
           /\ call.ret.some => (call.ret.val = <<4>> /\ initOk >= 1)

\* C10 witness: the same initiation message is answered Success a second
\* time.
C10_Witness ==
    /\ CarCalledAfterInit
    /\ call.message = init
    /\ call.ret.some
    /\ initOk = 2

\* The messages main's loop has taken off the queue, in order (each is
\* handed to the Car first).
Dequeued == [i \in 1 .. (Len(hist) \div 2) |-> hist[2 * i - 1].message]

\* The queue from its back to its front: the order pop_back takes it in.
Pending == [i \in 1 .. Len(ether) |-> ether[Len(ether) + 1 - i]]

\* C11: the queue is first in, first out: the messages taken off so far,
\* followed by the pending ones in the order they will be taken, are the
\* messages in the order they were pushed; so a message pushed earlier is
\* delivered earlier, and a response pushed during a round is behind every
\* message already pending.
C11_Fifo == sent = Dequeued \o Pending

\* C11 witness: the Car's response to a message has been pushed while an
\* earlier message of another party is pending, and is behind it.
C11_Witness ==
    /\ Len(hist) >= 2
    /\ hist[Len(hist) - 1].ret.some
    /\ Len(ether) >= 2
    /\ ether[1] = <<4>>
    /\ back(ether) # <<4>>

\* C12: every message taken off the queue is handed to the Car and to the
\* Keychain, the role that sent it included, and a role handed its own
\* message (the Keychain a CommandOpen message it built, the Car its Success)
\* returns nothing.
C12_BroadcastToAll ==
    /\ Len(hist) = 2 * (Len(sent) - Len(ether))
    /\ \A i \in 1 .. (Len(sent) - Len(ether)) :
          /\ hist[2 * i - 1].device = "car"
          /\ hist[2 * i - 1].message = sent[i]
          /\ hist[2 * i].device = "keychain"
          /\ hist[2 * i].message = sent[i]
          /\ sent[i] = <<4>> => ~hist[2 * i - 1].ret.some
          /\ (Len(sent[i]) > 1 /\ sent[i][1] = 1) => ~hist[2 * i].ret.some

\* C12 witness: main has ended; the Keychain was handed its own initiation
\* message, which the Car answered, and the Car was handed its own Success.
C12_Witness ==
    /\ pc = "done"
    /\ \E i \in 1 .. (Len(hist) \div 2) :
          /\ hist[2 * i].message = init
          /\ hist[2 * i - 1].ret.some
          /\ \E j \in (i + 1) .. (Len(hist) \div 2) :
                hist[2 * j - 1].device = "car" /\ hist[2 * j - 1].message = <<4>>

\* C13: main's loop always ends, with an empty queue, whatever messages are
\* on the queue first and whatever the Car decides on each (accepted, stale,
\* future, bad signature).
C13_Terminates == <>(pc = "done" /\ ether = <<>>)

\* C13 witness: main has ended with an empty queue after the Car was handed
\* a message it answered, one with a timestamp not yet reached and one with a
\* block the transform rejects.
C13_Witness ==
    /\ pc = "done"
    /\ ether = <<>>
    /\ \E i \in 1 .. Len(hist) : hist[i].device = "car" /\ hist[i].ret.some
    /\ \E i \in 1 .. Len(hist) :
          /\ hist[i].device = "car"
          /\ Len(hist[i].message) > TIME_LENGTH + 1
          /\ TokenOf(hist[i].message) > hist[i].now
    /\ \E i \in 1 .. Len(hist) :
          /\ hist[i].device = "car"
          /\ Len(hist[i].message) > TIME_LENGTH + 1
          /\ SigOf(hist[i].message) = Zeros(RsaSize)

\* C14: elapsed(reference, current) is Some(current - reference), as a
\* duration in nanoseconds, when current >= reference (a zero duration when
\* they are equal), and None when current < reference: the difference is
\* never a wrapped-around value.
C14_Elapsed ==
    call.device = "elapsed" =>
        IF call.current >= call.reference
        THEN /\ call.ret.some
             /\ call.ret.val.nanos \in 0 .. (NanosPerSec - 1)
             /\ call.ret.val.secs * NanosPerSec + call.ret.val.nanos
                    = call.current - call.reference
        ELSE call.ret = None

\* C14 witness: elapsed was called with the largest instant as reference and
\* the smallest as current, where a wrapping subtraction gives one
\* nanosecond, and returned None.
C14_Witness ==
    /\ call.device = "elapsed"
    /\ call.reference = U64Max
    /\ call.current = 0
    /\ call.ret = None

\* The block the public-key transform recovers from the signature block of
\* m, with the length it has, or Err.
RecoveredBlock(m) ==
    IF Len(SigOf(m)) > RsaSize THEN Err
    ELSE pkcs1_unpad(rsa_public(car.rsa.key,
             Zeros(RsaSize - Len(SigOf(m))) \o SigOf(m)))

\* C15: the Car answers Success only when the block recovered from the
\* signature is equal to the digest of the message's timestamp, octet for
\* octet and in length: a recovered block that is shorter than the digest, or
\* the digest followed by more octets, does not lead to Success.
C15_ExactDigest ==
    (CarCalled /\ call.ret.some)
        => RecoveredBlock(call.message)
               = Ok(Sha256(SubSeq(call.message, 2, TIME_LENGTH + 1)))

\* C16: the Car rejects every message of TIME_LENGTH + 1 octets or fewer, the
\* empty message and a bare tag among them, at the length test: it returns
\* nothing, prints nothing and reads no octet.  Every CommandOpen message of
\* TIME_LENGTH + 2 octets or more gets to the checks: its receipt is printed,
\* and it is answered exactly when its timestamp is fresh and its signature
\* verifies.
C16_LengthGuard ==
    CarCalled =>
        /\ Len(call.message) <= TIME_LENGTH + 1
              => (call.ret = None /\ call.out = <<>> /\ ether = <<>>)
        /\ (Len(call.message) >= TIME_LENGTH + 2 /\ call.message[1] = 1)
              => /\ call.out = <<"car recieved CommandOpen">>
                 /\ call.ret.some <=>
                        /\ InWindow(TokenOf(call.message), call.now)
                        /\ ~InvalidSignature(call.message)

\* C16 witness: a CommandOpen tag followed by a fresh timestamp and nothing
\* else, TIME_LENGTH + 1 octets in all, is rejected at the length test.
C16_Witness ==
    /\ CarCalled
    /\ Len(call.message) = TIME_LENGTH + 1
    /\ call.message[1] = 1
    /\ TokenOf(call.message) = call.now
    /\ call.ret = None
    /\ call.out = <<>>

\* What a delivery puts on the medium: its response, if it has one.
Outbound(d) == IF d.ret.some THEN <<d.ret.val>> ELSE <<>>

\* C17: no retries.  Every round of main's loop takes the message at the back
\* of the queue off it and hands it once to the Car and once to the Keychain,
\* nothing else is delivered, each delivery yields one message or none, and
\* the queue after the round is the queue before it without the message
\* taken, with exactly the messages the two deliveries yielded on its front:
\* the message taken is not put back.
C17_NoRetries ==
    [][(pc = "loop" /\ pc' = "loop") =>
          LET x == ether[Len(ether)]
              n == Len(hist)
          IN  /\ Len(hist') = n + 2
              /\ SubSeq(hist', 1, n) = hist
              /\ hist'[n + 1].device = "car"
              /\ hist'[n + 1].message = x
              /\ hist'[n + 2].device = "keychain"
              /\ hist'[n + 2].message = x
              /\ ether' = Outbound(hist'[n + 2]) \o Outbound(hist'[n + 1])
                              \o SubSeq(ether, 1, Len(ether) - 1)
              /\ sent' = sent \o Outbound(hist'[n + 1]) \o Outbound(hist'[n + 2])]_vars

\* C17 witness: main has ended after at least three messages, each delivered
\* exactly twice, one of them answered and one of them, a CommandOpen message,
\* not answered.
C17_Witness ==
    /\ pc = "done"
    /\ Len(sent) >= 3
    /\ Len(hist) = 2 * Len(sent)
    /\ \E i \in 1 .. Len(hist) : hist[i].ret.some
    /\ \E i \in 1 .. Len(hist) :
          /\ hist[i].device = "car"
          /\ Len(hist[i].message) > 1
          /\ hist[i].message[1] = 1
          /\ ~hist[i].ret.some

\* C18: whatever is handed to the Car, messages of a party without the
\* private key among them, the Car answers Success only to a message with the
\* CommandOpen tag, whose timestamp is at most the reading and less than one
\* second behind it, and whose signature block is the registered private key
\* applied to the digest of exactly that timestamp.
C18_Soundness ==
    (CarCalled /\ call.ret.some)
        => /\ call.message[1] = 1
           /\ InWindow(TokenOf(call.message), call.now)
           /\ Len(SigOf(call.message)) <= RsaSize
           /\ Zeros(RsaSize - Len(SigOf(call.message))) \o SigOf(call.message)
                  = private_encrypt(Keychain_new(car.rsa.key).rsa,
                        Sha256(SubSeq(call.message, 2, TIME_LENGTH + 1)))

\* The deliveries of main's run, by what happened in them.
CarDecided(i) == hist[i].device = "car" /\ hist[i].message = init
Completion(i) ==
    hist[i].device = "keychain" /\ hist[i].out = <<"keys recieved Success">>
IsSuccess(m) == Len(m) >= 1 /\ m[1] = 4

\* C19: in main's run the Keychain records completion only in a delivery that
\* comes after the delivery in which the Car answered the Keychain's own
\* initiation message; and once the Car has left that message unanswered, no
\* Success message is or was on the queue and the Keychain has recorded
\* nothing, in that state and in every later one.
C19_CompletionAfterAccept ==
    /\ \A j \in 1 .. Len(hist) :
          Completion(j) =>
              \E i \in 1 .. (j - 1) : CarDecided(i) /\ hist[i].ret = Some(<<4>>)
    /\ (\E i \in 1 .. Len(hist) : CarDecided(i) /\ ~hist[i].ret.some)
          => /\ \A k \in 1 .. Len(sent) : ~IsSuccess(sent[k])
             /\ \A k \in 1 .. Len(ether) : ~IsSuccess(ether[k])
             /\ \A j \in 1 .. Len(hist) : ~Completion(j)
             /\ out = <<"car recieved CommandOpen">>

\* C19 witness: main has ended after the Car left the initiation message
\* unanswered, one second old when it was delivered; the Keychain was handed
\* that message alone and recorded nothing.
C19_Witness ==
    /\ pc = "done"
    /\ Len(hist) = 2
    /\ CarDecided(1)
    /\ hist[1].now - TokenOf(init) = NanosPerSec
    /\ ~hist[1].ret.some
    /\ hist[2].device = "keychain"
    /\ hist[2].out = <<>>
    /\ sent = <<init>>

\* C20: in main's run the queue never holds more than one message, and at
\* most two messages are pushed on it in all: the Keychain's CommandOpen
\* message, and after it at most one Success from the Car.
C20_QueueBound ==
    /\ Len(ether) <= 1
    /\ Len(sent) <= 2
    /\ Len(sent) >= 1 => (sent[1] = init /\ init[1] = 1)
    /\ Len(sent) = 2 => (sent[2] = <<4>> /\ hist[1].device = "car" /\ hist[1].ret.some)

\* C20 witness: the second message, the Car's Success, is the one message on
\* the queue.
C20_Witness ==
    /\ pc = "loop"
    /\ Len(sent) = 2
    /\ ether = <<<<4>>>>

=============================================================================
